---- MODULE Spec2Model ----
\* TextOverlayProcessor (textOverlay.js): batch overlay of shipment data onto
\* PDFs followed by the external-tool compression pipeline.
\* Sizes are counted in tenths of a megabyte, so the 1.1 MB budget is 11.
EXTENDS Integers, Sequences, FiniteSets, TLC

\* ---------------------------------------------------------------- bounds
MaxFiles == 2      \* PDFs a folder can hold
MaxBatches == 2    \* processBatch invocations on one processor instance
MaxProcessed == 2  \* files one processor instance processes in its lifetime
MaxSize == 12      \* largest overlay-rendered document, tenths of a MB
MaxUploads == 2    \* files uploaded to each of the server's upload folders
MaxJobs == 2       \* processing requests the server receives
MaxRows == 2       \* rows of the first sheet of a manifest workbook
MaxEntries == 2    \* entries the cleaned directories hold together
MaxDays == 9       \* days the server runs
MaxSelected == 3   \* files selected in one section of the merger page
MaxClicks == 3     \* clicks on the merge button
MaxDownloads == 2  \* download requests for one job
ArchiveBlocks == 2 \* blocks the archive of a job's output is written in
MaxCompleted == 2  \* jobs the monitor is told to complete
MaxFailed == 51    \* jobs the monitor is told to fail
MaxTime == 3       \* half minutes the health of the server is watched for

\* ------------------------------------------------------ program constants
TargetSizeTenths == 11     \* 1.1 MB
TargetPageNumber == 9

Methods ==
  <<"ghostscript-screen", "ghostscript-ebook", "imagemagick-low", "imagemagick-med", "qpdf">>

DefaultFields ==
  <<"mvField", "containerNumber", "importerDate", "carrierDate", "signature">>

DefaultSignature ==
  [exists |-> FALSE, ext |-> "png", bytesOk |-> TRUE]

\* ------------------------------------------------------------ input sets
\* sizes of an overlay-rendered document: exactly the budget, and over it
FilledSizes == {TargetSizeTenths, MaxSize}
\* page counts of an input: one short of the target page, and exactly it
PageCounts == {TargetPageNumber - 1, TargetPageNumber}

\* What one external command does: how execSync ends and the size of the file
\* it leaves at the output path (0: no file). A command that ran to its end
\* leaves nothing, a file within the budget or one larger than every input;
\* one that was killed leaves nothing or a partial file.
Outcomes ==
  {[status |-> "ok", out |-> o] : o \in {0, TargetSizeTenths, MaxSize + 1}}
    \cup {[status |-> "nonzero", out |-> 0]}
    \cup {[status |-> "timeout", out |-> o] : o \in {0, TargetSizeTenths - 1}}
    \cup {[status |-> "absent", out |-> 0]}

\* The overlays of a POST /api/process request: one made by addOverlay of the
\* Form Processor page, which has a text, a position and a page but no name
\* (""), and two that an API client sent with a name.
RequestOverlays ==
  <<[name |-> "", text |-> "Simone Ganasen", x |-> 200, y |-> 400, page |-> 9],
    [name |-> "todaysDate", text |-> "", x |-> 150, y |-> 300, page |-> 9],
    [name |-> "mvField", text |-> "", x |-> 100, y |-> 200, page |-> 9]>>

\* name: overlay.name || 'customOverlay'
OverlayName(overlay) == IF overlay.name = "" THEN "customOverlay" ELSE overlay.name

\* processor.overlayConfig.fields = overlays.map(...): the names of the fields
FieldsFromOverlays(overlays) == [i \in DOMAIN overlays |-> OverlayName(overlays[i])]

\* overlayConfig as a caller may set it: the fields and the signature image
Configs ==
  {[fields |-> DefaultFields, sig |-> [exists |-> TRUE, ext |-> "png", bytesOk |-> TRUE]],
   [fields |-> DefaultFields, sig |-> [exists |-> TRUE, ext |-> "gif", bytesOk |-> TRUE]],
   [fields |-> FieldsFromOverlays(RequestOverlays),
    sig |-> [exists |-> TRUE, ext |-> "jpeg", bytesOk |-> FALSE]]}

\* A file name: <stem>[_complete].<ext>[.temp.pdf]. `complete` says that the
\* name contains "_complete", `temp` that it ends with ".temp.pdf".
DirEntries ==
  {[stem |-> s, complete |-> FALSE, ext |-> "pdf", temp |-> FALSE] : s \in 1..MaxFiles}
    \cup {[stem |-> 1, complete |-> TRUE, ext |-> "pdf", temp |-> FALSE],
          [stem |-> 1, complete |-> FALSE, ext |-> "txt", temp |-> FALSE]}

\* this.shipmentData: the invocation that extracted it (0: null) and whether
\* the standard font can encode the extracted ship name
NoShipmentData == [batch |-> 0, mvEncodable |-> FALSE]
NoFile == [src |-> "none", size |-> 0]
NoInput == [stem |-> 0, complete |-> FALSE, ext |-> "none", temp |-> FALSE]
NoCompress ==
  [called |-> FALSE, inputSize |-> 0, attempts |-> <<>>,
   last |-> [status |-> "none", out |-> 0],
   success |-> FALSE, finalSizeMB |-> 0, method |-> "pending", returned |-> FALSE]
NoSingle ==
  [input |-> NoInput, pages |-> 0, filledSize |-> 0, success |-> FALSE, finalSizeMB |-> 0,
   compressed |-> FALSE, overlaysAdded |-> 0, drawn |-> <<>>, error |-> "none",
   done |-> FALSE]
NoResult ==
  [success |-> FALSE, message |-> "none", processed |-> 0, successful |-> 0, failed |-> 0]

\* the state before any text was read
NoText == [text |-> <<>>, container |-> <<>>, containerPresent |-> FALSE, ship |-> <<>>,
           date |-> <<>>, arrivalPresent |-> FALSE]

NoExtraction ==
  [called |-> FALSE,
   data |-> [containerNumber |-> <<>>, shipName |-> <<>>, arrivalDate |-> <<>>,
             mvField |-> <<>>, todaysDate |-> <<>>]]

\* new SimplePerformanceMonitor(); returned is what the last call returned
NewMonitor ==
  [metrics |-> [totalRequests |-> 0, successfulRequests |-> 0, failedRequests |-> 0,
                mergerJobs |-> 0, formProcessorJobs |-> 0, errors |-> <<>>],
   activeJobs |-> <<>>,
   returned |-> "none"]

\* const SIGNATURE_PATH
SIGNATURE_PATH == "./signatures/default-signature.png"

\* overlayConfig.signatureConfig.imagePath of a new TextOverlayProcessor
imagePath == "./signature.png"

\* the 60000 ms of getHealthStatus, in half minutes
recentWindow == 2

\* no GET /api/health answered yet
NoHealth ==
  [asked |-> FALSE, status |-> "none", successRate |-> 0, recentErrors |-> 0,
   totalRequests |-> 0, successfulRequests |-> 0, signature |-> "none"]

\* no file at zipPath
NoZip == [exists |-> FALSE, blocks |-> <<>>]

\* const cleanupDirs
cleanupDirs == {"uploads", "outputs", "merger-uploads", "merger-outputs"}

\* const maxAge = 7 * 24 * 60 * 60 * 1000, in days
maxAge == 7

NoCleanup == [ran |-> FALSE, removed |-> {}, failed |-> {}]

VARIABLES
  shipmentData,    \* this.shipmentData
  processedCount,  \* this.processedCount
  successFiles,    \* this.successFiles
  failedFiles,     \* this.failedFiles
  fields,          \* this.overlayConfig.fields (names, in order)
  signature,       \* the file at this.overlayConfig.signatureConfig.imagePath
  pc,              \* "idle", "batch", "compress", "returned"
  caller,          \* who called advancedCompress: "batch" or "api"
  batchNo,         \* number of processBatch invocations started
  pdfFiles,        \* const pdfFiles of the running processBatch
  idx,             \* loop variable i of processBatch, 1-based
  processedLog,    \* inputs handed to processSinglePDFWithOverlay, this invocation
  extractedFrom,   \* paths handed to extractShipmentData, this invocation
  methodIdx,       \* position of advancedCompress's loop over methods
  tempFile,        \* content of `${outputPath}.temp.pdf`
  outFile,         \* content of outputPath
  compress,        \* the running / last advancedCompress call
  single,          \* the last processSinglePDFWithOverlay call
  result,          \* what processBatch returned (NoResult while it runs)
  written,         \* names of the files processBatch has written so far
  uploads,         \* server: the files in uploads/ (form processor uploads)
  mergerUploads,   \* server: the files in merger-uploads/
  jobs,            \* server: the /api/process and /api/merger/process requests
  probes,          \* server: per external tool, the times its availability was probed
  performanceMonitor,  \* server: the metrics and the active jobs of the global monitor
  time,            \* server: Date.now(), in half minutes
  workbook,        \* manifest: the sheets of the uploaded spreadsheet, each its rows
  manifest,        \* manifest: what processEdiFile returned
  groups,          \* merger: the client page groups, by reference
  mpc,             \* manifest: "editing", "loaded", "merged"
  fullText,        \* extraction: pdfData.text of the first PDF, with what it was built from
  extracted,       \* extraction: what extractShipmentData returned for fullText
  entries,         \* cleanup: per cleaned directory, its entries with their mtime
  clock,           \* cleanup: Date.now(), in days
  lastCleanup,     \* cleanup: what the last run of the daily cleanup did
  signatureFiles,  \* server: the paths that hold a signature image
  health,          \* server: the last answer of GET /api/health
  zip,             \* download: per route, the file at the job's zipPath
  downloads,       \* download: the download requests for one job
  mergerFiles,     \* merger page: per section, the number of selected files
  disabled,        \* merger page: the disabled attribute of merger-process-btn
  inFlight         \* merger page: the runs of startMergerProcessing not yet over

processorVars ==
  <<shipmentData, processedCount, successFiles, failedFiles, fields, signature, pc,
    caller, batchNo, pdfFiles, idx, processedLog, extractedFrom, methodIdx, tempFile,
    outFile, compress, single, result, written>>

serverVars ==
  <<uploads, mergerUploads, jobs, probes, performanceMonitor, time, signatureFiles, health>>

manifestVars == <<workbook, manifest, groups, mpc>>

textVars == <<fullText, extracted>>

cleanupVars == <<entries, clock, lastCleanup>>

downloadVars == <<zip, downloads>>

pageVars == <<mergerFiles, disabled, inFlight>>

vars ==
  <<processorVars, serverVars, manifestVars, textVars, cleanupVars, downloadVars, pageVars>>

\* what the actions of one part of the program leave alone
processorFrame == <<serverVars, manifestVars, textVars, cleanupVars, downloadVars, pageVars>>
serverFrame == <<processorVars, manifestVars, textVars, cleanupVars, downloadVars, pageVars>>
manifestFrame == <<processorVars, serverVars, textVars, cleanupVars, downloadVars, pageVars>>
textFrame == <<processorVars, serverVars, manifestVars, cleanupVars, downloadVars, pageVars>>
cleanupFrame == <<processorVars, serverVars, manifestVars, textVars, downloadVars, pageVars>>
downloadFrame == <<processorVars, serverVars, manifestVars, textVars, cleanupVars, pageVars>>
pageFrame ==
  <<processorVars, serverVars, manifestVars, textVars, cleanupVars, downloadVars>>

\* ------------------------------------------------------- pure functions

\* file.toLowerCase().endsWith('.pdf')
EndsWithPdf(f) == f.temp \/ f.ext \in {"pdf", "PDF"}

\* variant: only names that end with "_complete.pdf" are left out
IncludesCompleteAtEnd(f) == f.complete /\ ~f.temp

\* file.includes('_complete')
IncludesComplete(f) == f.complete

\* Array.prototype.sort on the joined paths:
\* "1.pdf" < "1_complete.pdf" < "1_complete.pdf.temp.pdf" < "2.pdf"
SortKey(f) ==
  4 * f.stem + (IF f.complete THEN 2 ELSE 0) + (IF f.temp THEN 1 ELSE 0)

\* `${parsedPath.name}_complete${parsedPath.ext}`
generateOutputFileName(f) == [f EXCEPT !.complete = TRUE]

\* `${outputPath}.temp.pdf`
TempPath(out) == [out EXCEPT !.temp = TRUE]

RECURSIVE SortFiles(_)
SortFiles(S) ==
  IF S = {} THEN <<>>
  ELSE LET m == CHOOSE f \in S : \A g \in S : SortKey(f) <= SortKey(g)
       IN <<m>> \o SortFiles(S \ {m})

findPDFFiles(listing) ==
  SortFiles({f \in listing : EndsWithPdf(f) /\ ~IncludesComplete(f)})

\* variant: the boundary size counts as over the budget
NeedsCompressionAtBoundary(size) == size >= TargetSizeTenths

\* originalSizeMB <= targetSizeMB is false
NeedsCompression(size) == size > TargetSizeTenths

\* variant: the 1-based page number compared as a 0-based index
PageCountTooSmallZeroBased(pages) == pages < TargetPageNumber - 1

\* pages.length < this.overlayConfig.targetPageNumber
PageCountTooSmall(pages) == pages < TargetPageNumber

\* variant: the switch also has a case 'todaysDate'
KnownFieldWithTodaysDate(name) ==
  name \in {"mvField", "containerNumber", "importerDate", "carrierDate", "todaysDate"}

\* the switch over field.name in addTextOverlays
KnownField(name) == name \in {"mvField", "containerNumber", "importerDate", "carrierDate"}

\* page.drawText returns normally: the shipment data is there and the text is
\* encodable in the standard font (only the ship name is free text)
DrawTextOk(name, data) ==
  /\ data.batch # 0
  /\ name = "mvField" => data.mvEncodable

\* variant: the date fields are filled from the ship name line
ShipmentAttributeDatesFromMv(name) ==
  CASE name \in {"mvField", "importerDate", "carrierDate"} -> "mvField"
    [] name = "containerNumber" -> "containerNumber"
    [] OTHER -> "none"

\* textToAdd of the switch over field.name: the attribute of this.shipmentData
\* that is drawn for the field ("none": the default branch)
ShipmentAttribute(name) ==
  CASE name = "mvField" -> "mvField"
    [] name = "containerNumber" -> "containerNumber"
    [] name \in {"importerDate", "carrierDate"} -> "todaysDate"
    [] OTHER -> "none"

\* the page.drawText calls of the loop over the fields that returned
\* normally, in order: the field and the attribute whose string was drawn
RECURSIVE DrawnOverlays(_, _)
DrawnOverlays(fs, data) ==
  IF fs = <<>> THEN <<>>
  ELSE (IF Head(fs) # "signature" /\ KnownField(Head(fs)) /\ DrawTextOk(Head(fs), data)
        THEN <<[name |-> Head(fs), text |-> ShipmentAttribute(Head(fs))]>>
        ELSE <<>>) \o DrawnOverlays(Tail(fs), data)

\* variant: every image is handed to the embedder
SupportedImageAny(ext) == TRUE

\* imagePath.endsWith('.png') || endsWith('.jpg') || endsWith('.jpeg')
SupportedImage(ext) == ext \in {"png", "jpg", "jpeg"}

\* the signature block of addTextOverlays reaches overlaysAdded++
SignatureAdded(sig) == sig.exists /\ SupportedImage(sig.ext) /\ sig.bytesOk

RECURSIVE TextOverlays(_, _)
TextOverlays(fs, data) ==
  IF fs = <<>> THEN 0
  ELSE (IF Head(fs) # "signature" /\ KnownField(Head(fs)) /\ DrawTextOk(Head(fs), data)
        THEN 1 ELSE 0) + TextOverlays(Tail(fs), data)

addTextOverlays(fs, sig, data) ==
  (IF SignatureAdded(sig) THEN 1 ELSE 0) + TextOverlays(fs, data)

\* variant: any output of a command that ran to its end is accepted
AttemptSucceedsIgnoringBudget(o) == o.status = "ok" /\ o.out # 0

\* variant: the output is inspected even when execSync threw
AttemptSucceedsIgnoringStatus(o) == o.out # 0 /\ o.out <= TargetSizeTenths

\* execSync returned and the output exists with compressedSizeMB <= targetSizeMB
AttemptSucceeds(o) == o.status = "ok" /\ o.out # 0 /\ o.out <= TargetSizeTenths

\* what the external command leaves at outputPath (the old file was unlinked)
FileAfter(m, o) == IF o.out = 0 THEN NoFile ELSE [src |-> Methods[m], size |-> o.out]

\* ------------------------------------------------------------- state
Init ==
  /\ shipmentData = NoShipmentData
  /\ processedCount = 0
  /\ successFiles = <<>>
  /\ failedFiles = <<>>
  /\ fields = DefaultFields
  /\ signature = DefaultSignature
  /\ pc = "idle"
  /\ caller = "batch"
  /\ batchNo = 0
  /\ pdfFiles = <<>>
  /\ idx = 1
  /\ processedLog = <<>>
  /\ extractedFrom = <<>>
  /\ methodIdx = 1
  /\ tempFile = NoFile
  /\ outFile = NoFile
  /\ compress = NoCompress
  /\ single = NoSingle
  /\ result = NoResult
  /\ written = {}
  /\ uploads = {}
  /\ mergerUploads = {}
  /\ jobs = <<>>
  /\ performanceMonitor = NewMonitor
  /\ time = 0
  /\ signatureFiles = {}
  /\ health = NoHealth
  /\ probes = [tool \in {"ghostscript", "imagemagick", "qpdf"} |-> 0]
  /\ fullText = NoText
  /\ mergerFiles = [type \in {"edi", "advice", "documents"} |-> 0]
  /\ disabled = TRUE
  /\ inFlight = 0
  /\ zip = [route \in {"download", "merger/download"} |-> NoZip]
  /\ downloads = <<>>
  /\ entries = [dir \in cleanupDirs |-> {}]
  /\ clock = 0
  /\ lastCleanup = NoCleanup
  /\ extracted = NoExtraction
  /\ workbook = <<<<>>, <<>>>>
  /\ manifest = <<>>
  /\ groups = <<>>
  /\ mpc = "editing"

\* ------------------------------------------------------ processBatch

\* extractShipmentData: a read or parse error is caught and leaves
\* this.shipmentData as it was; otherwise the record is replaced
extractShipmentData(data, batch, ex) ==
  IF ex = "throws" THEN data
  ELSE [batch |-> batch, mvEncodable |-> (ex = "encodable")]

\* if (!this.shipmentData)
ExtractionFailed(data) == data.batch = 0

\* variant: the batch succeeds only when no file failed
BatchSuccessIfNoneFailed(nFailed) == nFailed = 0

\* the batch-level success flag of the result returned after the loop
BatchSuccess(nFailed) == TRUE

\* body of the for loop of processBatch after processSinglePDFWithOverlay
\* returned r
LoopBody(r) ==
  /\ single' = r
  /\ IF r.success
     THEN /\ successFiles' = Append(successFiles,
                 [input |-> r.input, sizeMB |-> r.finalSizeMB,
                  overlaysAdded |-> r.overlaysAdded])
          /\ UNCHANGED failedFiles
     ELSE /\ failedFiles' = Append(failedFiles, [input |-> r.input, error |-> r.error])
          /\ UNCHANGED successFiles
  /\ processedCount' = processedCount + 1
  /\ idx' = idx + 1
  /\ pc' = "batch"

\* processBatch up to the first iteration of its loop
ProcessBatch(listing, ex) ==
  /\ pc \in {"idle", "returned"}
  /\ batchNo < MaxBatches
  /\ processedCount + Len(findPDFFiles(listing)) <= MaxProcessed
  /\ batchNo' = batchNo + 1
  /\ pdfFiles' = findPDFFiles(listing)
  /\ processedLog' = <<>>
  /\ idx' = 1
  /\ IF pdfFiles' = <<>>
     THEN /\ result' = [NoResult EXCEPT !.message = "No PDF files found"]
          /\ pc' = "returned"
          /\ extractedFrom' = <<>>
          /\ UNCHANGED shipmentData
     ELSE /\ extractedFrom' = <<pdfFiles'[1]>>
          /\ shipmentData' = extractShipmentData(shipmentData, batchNo', ex)
          /\ IF ExtractionFailed(shipmentData')
             THEN /\ result' = [NoResult EXCEPT !.message = "Failed to extract shipment data"]
                  /\ pc' = "returned"
             ELSE /\ pc' = "batch"
                  /\ result' = NoResult
  /\ caller' = "batch"
  /\ methodIdx' = 1
  /\ tempFile' = NoFile
  /\ outFile' = NoFile
  /\ compress' = NoCompress
  /\ single' = NoSingle
  /\ UNCHANGED <<processedCount, successFiles, failedFiles, fields, signature, written>>
  /\ UNCHANGED processorFrame

\* the caller assigns overlayConfig before the first batch
Configure(cfg) ==
  /\ pc = "idle"
  /\ batchNo = 0
  /\ fields' = cfg.fields
  /\ signature' = cfg.sig
  /\ UNCHANGED <<shipmentData, processedCount, successFiles, failedFiles, pc, caller,
                 batchNo, pdfFiles, idx, processedLog, extractedFrom, methodIdx, tempFile,
                 outFile, compress, single, result, written>>
  /\ UNCHANGED processorFrame

\* ------------------------------------- processSinglePDFWithOverlay

SingleFailure(input, pages, error) ==
  [NoSingle EXCEPT !.input = input, !.pages = pages, !.error = error, !.done = TRUE]

\* one iteration of the loop of processBatch: processSinglePDFWithOverlay up
\* to its return, or up to the first external command of advancedCompress.
\* stored: writeFileSync(tempPath, ...) wrote the whole file; when it throws
\* part-way (a full disk), the catch block returns the failure
ProcessFile(loadable, pages, filled, stored) ==
  /\ pc = "batch"
  /\ idx <= Len(pdfFiles)
  /\ processedLog' = Append(processedLog, pdfFiles[idx])
  /\ LET input == pdfFiles[idx]
         outputPath == generateOutputFileName(input)
         overlays == addTextOverlays(fields, signature, shipmentData)
         filledFile == [src |-> "overlay", size |-> filled]
     IN IF ~loadable
        THEN /\ LoopBody(SingleFailure(input, 0, "load"))
             /\ tempFile' = NoFile
             /\ outFile' = NoFile
             /\ compress' = NoCompress
             /\ UNCHANGED <<caller, methodIdx, written>>
        ELSE IF PageCountTooSmall(pages)
        THEN /\ LoopBody(SingleFailure(input, pages, "pages"))
             /\ tempFile' = NoFile
             /\ outFile' = NoFile
             /\ compress' = NoCompress
             /\ UNCHANGED <<caller, methodIdx, written>>
        ELSE IF ~stored
        THEN /\ LoopBody(SingleFailure(input, pages, "io"))
             /\ tempFile' = filledFile
             /\ outFile' = NoFile
             /\ written' = written \cup {TempPath(outputPath)}
             /\ compress' = NoCompress
             /\ UNCHANGED <<caller, methodIdx>>
        ELSE IF NeedsCompression(filled)
        THEN /\ tempFile' = filledFile
             /\ outFile' = NoFile
             /\ written' = written \cup {TempPath(outputPath)}
             /\ compress' = [NoCompress EXCEPT !.called = TRUE, !.inputSize = filled]
             /\ caller' = "batch"
             /\ methodIdx' = 1
             /\ pc' = "compress"
             /\ single' = [NoSingle EXCEPT !.input = input, !.pages = pages,
                                           !.filledSize = filled,
                                           !.overlaysAdded = overlays,
                                           !.drawn = DrawnOverlays(fields, shipmentData)]
             /\ UNCHANGED <<successFiles, failedFiles, processedCount, idx>>
        ELSE /\ tempFile' = NoFile
             /\ outFile' = filledFile
             /\ written' = written \cup {TempPath(outputPath), outputPath}
             /\ compress' = NoCompress
             /\ LoopBody([NoSingle EXCEPT !.input = input, !.pages = pages,
                                          !.filledSize = filled, !.success = TRUE,
                                          !.finalSizeMB = filled,
                                          !.overlaysAdded = overlays,
                                          !.drawn = DrawnOverlays(fields, shipmentData),
                                          !.done = TRUE])
             /\ UNCHANGED <<caller, methodIdx>>
  /\ UNCHANGED <<shipmentData, fields, signature, batchNo, pdfFiles, extractedFrom,
                 result>>
  /\ UNCHANGED processorFrame

\* the loop of processBatch is over: summary and return
ProcessBatchReturn ==
  /\ pc = "batch"
  /\ idx > Len(pdfFiles)
  /\ result' = [success |-> BatchSuccess(Len(failedFiles)), message |-> "none",
                processed |-> processedCount, successful |-> Len(successFiles),
                failed |-> Len(failedFiles)]
  /\ pc' = "returned"
  /\ tempFile' = NoFile
  /\ outFile' = NoFile
  /\ compress' = NoCompress
  /\ single' = NoSingle
  /\ UNCHANGED <<shipmentData, processedCount, successFiles, failedFiles, fields,
                 signature, caller, batchNo, pdfFiles, idx, processedLog, extractedFrom,
                 methodIdx, written>>
  /\ UNCHANGED processorFrame

\* ------------------------------------------------- advancedCompress

\* variant: a failed method also skips its successor
NextMethodSkips(m) == m + 2

\* for (const method of methods): the method tried after the m-th failed
NextMethod(m) == m + 1

\* variant: the copy after the loop is missing
FallbackFileKeepsProduced(input, produced) == produced

\* fs.copyFileSync(inputPath, outputPath) after the loop
FallbackFile(input, produced) == input

\* lines 204-227 of processSinglePDFWithOverlay, after advancedCompress
\* returned c with file `out` at the output path
AfterCompress(c, out) ==
  LET final == IF c.success THEN out ELSE tempFile
  IN /\ outFile' = final
     /\ tempFile' = NoFile
     /\ LoopBody([single EXCEPT !.success = TRUE, !.finalSizeMB = final.size,
                                !.compressed = TRUE, !.done = TRUE])

\* advancedCompress returns c, leaving `out` at the output path
CompressReturn(c, out) ==
  /\ compress' = [c EXCEPT !.returned = TRUE]
  /\ methodIdx' = 1
  /\ IF caller = "batch"
     THEN AfterCompress(c, out)
     ELSE /\ outFile' = out
          /\ pc' = "idle"
          /\ UNCHANGED <<tempFile, single, successFiles, failedFiles, processedCount, idx>>

\* one iteration of the loop over methods; o is what the external command did
CompressAttempt(o) ==
  /\ pc = "compress"
  /\ LET m == methodIdx
         c == [compress EXCEPT !.attempts = Append(@, Methods[m]),
                               !.last = o]
         produced == FileAfter(m, o)
     IN IF AttemptSucceeds(o)
        THEN CompressReturn([c EXCEPT !.success = TRUE, !.finalSizeMB = o.out,
                                      !.method = Methods[m]], produced)
        ELSE IF NextMethod(m) <= Len(Methods)
        THEN /\ methodIdx' = NextMethod(m)
             /\ compress' = c
             /\ outFile' = produced
             /\ UNCHANGED <<tempFile, single, successFiles, failedFiles, processedCount,
                            idx, pc>>
        ELSE CompressReturn([c EXCEPT !.success = FALSE,
                                      !.finalSizeMB = c.inputSize,
                                      !.method = "fallback"],
                            FallbackFile(tempFile, produced))
  /\ written' = IF caller = "batch" /\ outFile' # NoFile
                THEN written \cup {generateOutputFileName(pdfFiles[idx])}
                ELSE written
  /\ UNCHANGED <<shipmentData, fields, signature, caller, batchNo, pdfFiles,
                 processedLog, extractedFrom, result>>
  /\ UNCHANGED processorFrame

\* advancedCompress called on its own (it is a public method) with a file of
\* size s at inputPath
AdvancedCompress(s) ==
  /\ pc = "idle"
  /\ tempFile' = [src |-> "input", size |-> s]
  /\ caller' = "api"
  /\ methodIdx' = 1
  /\ IF NeedsCompression(s)
     THEN /\ compress' = [NoCompress EXCEPT !.called = TRUE, !.inputSize = s]
          /\ outFile' = NoFile
          /\ pc' = "compress"
     ELSE /\ compress' = [NoCompress EXCEPT !.called = TRUE, !.inputSize = s,
                                            !.success = TRUE, !.finalSizeMB = s,
                                            !.method = "none", !.returned = TRUE]
          /\ outFile' = tempFile'
          /\ pc' = "idle"
  /\ UNCHANGED <<shipmentData, processedCount, successFiles, failedFiles, fields,
                 signature, batchNo, pdfFiles, idx, processedLog, extractedFrom, single,
                 result, written>>
  /\ UNCHANGED processorFrame

\* ------------------------------------------------------ specification
Next ==
  \/ \E cfg \in Configs : Configure(cfg)
  \/ \E listing \in SUBSET DirEntries, ex \in {"throws", "encodable", "unencodable"} :
       ProcessBatch(listing \cup written, ex)
  \/ \E loadable \in BOOLEAN, pages \in PageCounts, filled \in FilledSizes :
       ProcessFile(loadable, pages, filled, TRUE)
  \/ ProcessBatchReturn
  \/ \E o \in Outcomes : CompressAttempt(o)
  \/ \E s \in FilledSizes : AdvancedCompress(s)

Spec == Init /\ [][Next]_vars

\* the processor on a disk that can fill up while a temporary file is written
DiskNext ==
  \/ Next
  \/ \E loadable \in BOOLEAN, pages \in PageCounts, filled \in FilledSizes :
       ProcessFile(loadable, pages, filled, FALSE)

DiskSpec == Init /\ [][DiskNext]_vars

\* ------------------------------------------- SimplePerformanceMonitor
\* activeJobs maps a job id to the job's type; an entry of metrics.errors
\* holds the number of the failure it records and its timestamp

\* this.metrics.errors.slice(-50) once the list is longer than 50
errorsKept == 50

startJob(pm, jobType, jobId) ==
  [pm EXCEPT !.activeJobs = [id \in DOMAIN @ \cup {jobId} |->
                               IF id = jobId THEN jobType ELSE @[id]],
             !.returned = "job"]

\* variant: the job is counted but stays active
completeJobKeepsActive(pm, jobId) ==
  IF jobId \notin DOMAIN pm.activeJobs THEN [pm EXCEPT !.returned = "null"]
  ELSE [pm EXCEPT !.metrics.totalRequests = @ + 1,
                  !.metrics.successfulRequests = @ + 1,
                  !.returned = "job"]

completeJob(pm, jobId) ==
  IF jobId \notin DOMAIN pm.activeJobs THEN [pm EXCEPT !.returned = "null"]
  ELSE [pm EXCEPT !.metrics.totalRequests = @ + 1,
                  !.metrics.successfulRequests = @ + 1,
                  !.metrics.mergerJobs =
                     IF pm.activeJobs[jobId] = "merger" THEN @ + 1 ELSE @,
                  !.metrics.formProcessorJobs =
                     IF pm.activeJobs[jobId] = "form-processor" THEN @ + 1 ELSE @,
                  !.activeJobs = [id \in DOMAIN @ \ {jobId} |-> @[id]],
                  !.returned = "job"]

\* variant: the list is cut to its first 50 entries
SliceFirst(errors) ==
  IF Len(errors) > errorsKept THEN SubSeq(errors, 1, errorsKept) ELSE errors

Slice(errors) ==
  IF Len(errors) > errorsKept
  THEN SubSeq(errors, Len(errors) - errorsKept + 1, Len(errors))
  ELSE errors

failJob(pm, jobId, now) ==
  IF jobId \notin DOMAIN pm.activeJobs THEN [pm EXCEPT !.returned = "null"]
  ELSE [pm EXCEPT !.metrics.totalRequests = @ + 1,
                  !.metrics.failedRequests = @ + 1,
                  !.metrics.errors =
                     Slice(Append(@, [failure |-> pm.metrics.failedRequests + 1,
                                      timestamp |-> now])),
                  !.activeJobs = [id \in DOMAIN @ \ {jobId} |-> @[id]],
                  !.returned = "job"]

\* ------------------------------------------------------------- server.js
\* The two processing routes of the web server and the upload folders they
\* work from. A directory is a root and the job id its name is made from
\* (0: the name holds no job id).

Users == {1, 2}

Dir(root, job) == [root |-> root, job |-> job]

\* multer's diskStorage: the file lands in the route's one upload folder under
\* a unique name
StoreUpload(folder, user) == folder \cup {[id |-> Cardinality(folder) + 1, user |-> user]}

\* POST /api/upload
Upload(user) ==
  /\ Cardinality(uploads) < MaxUploads
  /\ uploads' = StoreUpload(uploads, user)
  /\ UNCHANGED <<mergerUploads, jobs, probes, performanceMonitor, time, signatureFiles, health>>
  /\ UNCHANGED serverFrame

\* POST /api/merger/upload
MergerUpload(user) ==
  /\ Cardinality(mergerUploads) < MaxUploads
  /\ mergerUploads' = StoreUpload(mergerUploads, user)
  /\ UNCHANGED <<uploads, jobs, probes, performanceMonitor, time, signatureFiles, health>>
  /\ UNCHANGED serverFrame

\* const jobId = uuidv4()
NewJobId == Len(jobs) + 1

\* POST /api/process up to the call of processBatch: the output directory,
\* the temporary input directory and the copies of the requested files that
\* exist in uploads/
FormProcessStart(user, files) ==
  /\ Len(jobs) < MaxJobs
  /\ jobs' = Append(jobs,
       [kind |-> "form", user |-> user, state |-> "running",
        inputDir |-> Dir("uploads/temp_", NewJobId),
        outputDir |-> Dir("outputs/", NewJobId),
        inputs |-> files \cap uploads, reported |-> FALSE, signed |-> FALSE])
  /\ performanceMonitor' = startJob(performanceMonitor, "form-processor", NewJobId)
  /\ UNCHANGED <<uploads, mergerUploads, probes, time, signatureFiles, health>>
  /\ UNCHANGED serverFrame

\* POST /api/merger/process up to the start of pdf_merger.py: --input-folder
\* is the upload folder itself, --output-folder is made from the job id
MergerProcessStart(user) ==
  /\ Len(jobs) < MaxJobs
  /\ jobs' = Append(jobs,
       [kind |-> "merger", user |-> user, state |-> "running",
        inputDir |-> Dir("merger-uploads", 0),
        outputDir |-> Dir("merger-outputs/", NewJobId),
        inputs |-> {}, reported |-> FALSE, signed |-> FALSE])
  /\ performanceMonitor' = startJob(performanceMonitor, "merger", NewJobId)
  /\ UNCHANGED <<uploads, mergerUploads, probes, time, signatureFiles, health>>
  /\ UNCHANGED serverFrame

\* tools.forEach(tool => execSync(tool.command)): one probe of every tool
checkCompressionTools(probed) == [tool \in DOMAIN probed |-> probed[tool] + 1]

\* the rest of either route: processBatch over the temporary directory, or
\* the run of the script over the folder it was given as it is by then;
\* batch tells whether processBatch found PDFs and extracted the shipment
\* data, so that it went on to check the compression tools. ok: nothing
\* threw up to completeJob; sent: res.json after completeJob did not throw
\* (when it throws, the catch block calls failJob for the completed job).
\* reported: SIGNATURE_PATH exists while the request is served, which is what
\* the server answers about the signature; signed: addTextOverlays of the
\* request's new TextOverlayProcessor finds its image and draws it
JobFinish(j, ok, batch, sent) ==
  /\ j \in DOMAIN jobs
  /\ jobs[j].state = "running"
  /\ batch => jobs[j].kind = "form" /\ jobs[j].inputs # {}
  /\ ~ok => sent
  /\ performanceMonitor' =
       IF ~ok THEN failJob(performanceMonitor, j, time)
       ELSE IF sent THEN completeJob(performanceMonitor, j)
       ELSE failJob(completeJob(performanceMonitor, j), j, time)
  /\ probes' = IF batch THEN checkCompressionTools(probes) ELSE probes
  /\ jobs' = [jobs EXCEPT ![j].state = IF ok THEN "done" ELSE "failed",
                          ![j].inputs = IF jobs[j].kind = "merger" THEN mergerUploads
                                        ELSE @,
                          ![j].reported = jobs[j].kind = "form" /\ SIGNATURE_PATH \in signatureFiles,
                          ![j].signed = jobs[j].kind = "form" /\ imagePath \in signatureFiles]
  /\ UNCHANGED <<uploads, mergerUploads, time, signatureFiles, health>>
  /\ UNCHANGED serverFrame

ServerNext ==
  \/ \E user \in Users : Upload(user)
  \/ \E user \in Users : MergerUpload(user)
  \/ \E user \in Users, files \in SUBSET uploads : FormProcessStart(user, files)
  \/ \E user \in Users : MergerProcessStart(user)
  \/ \E j \in 1..MaxJobs, ok \in BOOLEAN, batch \in BOOLEAN, sent \in BOOLEAN :
       JobFinish(j, ok, batch, sent)

ServerSpec == Init /\ [][ServerNext]_vars

\* processBatch's loop is finite and the promise around PythonShell.run
\* settles when the script exits: a running request reaches its end
ServerFairSpec ==
  ServerSpec
    /\ WF_vars(\E j \in 1..MaxJobs, ok \in BOOLEAN, batch \in BOOLEAN, sent \in BOOLEAN :
                 JobFinish(j, ok, batch, sent))

\* --------------------------------------------- health of the server
\* successRate of getMetrics in hundredths of a percent: toFixed(2) of the
\* quotient, and the number 0 while no request has finished
successRate(pm) ==
  IF pm.metrics.totalRequests > 0
  THEN (((pm.metrics.successfulRequests * 100000) \div pm.metrics.totalRequests) + 5) \div 10
  ELSE 0

\* parseFloat(metrics.successRate) > 95 on the string `${successRate}%`
getHealthStatus(pm, now) ==
  LET recentErrors ==
        SelectSeq(pm.metrics.errors, LAMBDA error : now - error.timestamp < recentWindow)
      isHealthy == Len(recentErrors) = 0 /\ successRate(pm) > 9500
  IN [status |-> IF isHealthy THEN "healthy" ELSE "degraded",
      successRate |-> successRate(pm),
      recentErrors |-> Len(recentErrors)]

\* the operator of the server puts a signature image at a path
PlaceSignature(path) ==
  /\ path \notin signatureFiles
  /\ signatureFiles' = signatureFiles \cup {path}
  /\ UNCHANGED <<uploads, mergerUploads, jobs, probes, performanceMonitor, time, health>>
  /\ UNCHANGED serverFrame

\* half a minute passes
Tick ==
  /\ time < MaxTime
  /\ time' = time + 1
  /\ UNCHANGED <<uploads, mergerUploads, jobs, probes, performanceMonitor, signatureFiles,
                 health>>
  /\ UNCHANGED serverFrame

\* GET /api/health; the counters of the monitor are kept beside the answer
GetHealth ==
  /\ health' =
       LET h == getHealthStatus(performanceMonitor, time)
       IN [asked |-> TRUE, status |-> h.status, successRate |-> h.successRate,
           recentErrors |-> h.recentErrors,
           totalRequests |-> performanceMonitor.metrics.totalRequests,
           successfulRequests |-> performanceMonitor.metrics.successfulRequests,
           signature |-> IF SIGNATURE_PATH \in signatureFiles THEN "available"
                         ELSE "missing"]
  /\ UNCHANGED <<uploads, mergerUploads, jobs, probes, performanceMonitor, time,
                 signatureFiles>>
  /\ UNCHANGED serverFrame

HealthNext ==
  \/ \E path \in {SIGNATURE_PATH, imagePath} : PlaceSignature(path)
  \/ Tick
  \/ GetHealth
  \/ \E user \in Users : FormProcessStart(user, {})
  \/ \E user \in Users : MergerProcessStart(user)
  \/ \E j \in 1..MaxJobs, ok \in BOOLEAN, sent \in BOOLEAN : JobFinish(j, ok, FALSE, sent)

HealthSpec == Init /\ [][HealthNext]_vars

\* ----------------------------------- calls of the performance monitor
JobTypes == {"merger", "form-processor", "other"}

JobIds == 1..2

\* performanceMonitor.startJob(jobType, jobId)
StartJob(jobType, jobId) ==
  /\ performanceMonitor' = startJob(performanceMonitor, jobType, jobId)
  /\ UNCHANGED <<uploads, mergerUploads, jobs, probes, time, signatureFiles, health>>
  /\ UNCHANGED serverFrame

\* performanceMonitor.completeJob(jobId)
CompleteJob(jobId) ==
  /\ jobId \in DOMAIN performanceMonitor.activeJobs =>
       performanceMonitor.metrics.successfulRequests < MaxCompleted
  /\ performanceMonitor' = completeJob(performanceMonitor, jobId)
  /\ UNCHANGED <<uploads, mergerUploads, jobs, probes, time, signatureFiles, health>>
  /\ UNCHANGED serverFrame

\* performanceMonitor.failJob(jobId, error)
FailJob(jobId) ==
  /\ jobId \in DOMAIN performanceMonitor.activeJobs =>
       performanceMonitor.metrics.failedRequests < MaxFailed
  /\ performanceMonitor' = failJob(performanceMonitor, jobId, time)
  /\ UNCHANGED <<uploads, mergerUploads, jobs, probes, time, signatureFiles, health>>
  /\ UNCHANGED serverFrame

MonitorNext ==
  \/ \E jobType \in JobTypes, jobId \in JobIds : StartJob(jobType, jobId)
  \/ \E jobId \in JobIds : CompleteJob(jobId)
  \/ \E jobId \in JobIds : FailJob(jobId)

MonitorSpec == Init /\ [][MonitorNext]_vars

\* ------------------------------------------------------ processEdiFile
\* A string is the sequence of its characters. A cell of a row object is
\* absent (the key is not in the object), a string or a number.

Absent == [t |-> "absent", s |-> <<>>, n |-> 0]
Str(chars) == [t |-> "s", s |-> chars, n |-> 0]
Num(n) == [t |-> "n", s |-> <<>>, n |-> n]

\* the values of the 'Consignees Reference' column
ReferenceCells ==
  {Absent, Num(12), Str(<<" ">>), Str(<<"1", "/", "2">>), Str(<<" ", "1", "/", "2", " ">>),
   Str(<<"1", "-", "2">>)}

\* the values of the 'Consignees Name' column
NameCells == {Absent, Str(<<"A">>), Str(<<" ", "B", " ">>)}

\* the rows sheet_to_json can return: cref, cname are the 'Consignees ...'
\* columns, ref and name the 'Reference' and 'Name' columns
Rows ==
  [cref : ReferenceCells, ref : {Absent}, cname : NameCells, name : {Absent}]
    \cup [cref : {Absent}, ref : {Str(<<"3">>)}, cname : NameCells,
          name : {Absent, Str(<<" ">>)}]
    \cup [cref : {Str(<<"1", "/", "2">>)}, ref : {Str(<<"3">>)}, cname : {Absent},
          name : {Str(<<"C">>)}]

\* the rows of a second sheet
OtherSheetRows ==
  {[cref |-> Str(<<"7">>), ref |-> Absent, cname |-> Str(<<"D">>), name |-> Absent]}

\* JavaScript truthiness of a cell value
Truthy(c) ==
  \/ c.t = "s" /\ c.s # <<>>
  \/ c.t = "n" /\ c.n # 0

\* a || b
Or(a, b) == IF Truthy(a) THEN a ELSE b

Digit(d) == <<"0", "1", "2", "3", "4", "5", "6", "7", "8", "9">>[d + 1]

RECURSIVE Digits(_)
Digits(n) == IF n < 10 THEN <<Digit(n)>> ELSE Digits(n \div 10) \o <<Digit(n % 10)>>

\* value.toString()
toString(c) == IF c.t = "n" THEN Digits(c.n) ELSE c.s

\* the white space of \s and of trim() that a text can hold
IsSpace(c) == c \in {" ", "\n", "\t"}

RECURSIVE TrimStart(_)
TrimStart(str) ==
  IF str # <<>> /\ IsSpace(Head(str)) THEN TrimStart(Tail(str)) ELSE str

RECURSIVE TrimEnd(_)
TrimEnd(str) ==
  IF str # <<>> /\ IsSpace(str[Len(str)]) THEN TrimEnd(SubSeq(str, 1, Len(str) - 1)) ELSE str

\* String.prototype.trim
Trim(str) == TrimEnd(TrimStart(str))

\* manifest[key] = value
Put(m, key, value) == [k \in DOMAIN m \cup {key} |-> IF k = key THEN value ELSE m[k]]

\* the body of data.forEach
AddRowToManifest(m, row) ==
  LET consigneeRef == Or(row.cref, row.ref)
      consigneeName == Or(row.cname, row.name)
  IN IF Truthy(consigneeRef) /\ Truthy(consigneeName)
     THEN Put(m, Trim(toString(consigneeRef)), Trim(toString(consigneeName)))
     ELSE m

RECURSIVE ForEachRow(_, _)
ForEachRow(m, data) ==
  IF data = <<>> THEN m ELSE ForEachRow(AddRowToManifest(m, Head(data)), Tail(data))

\* workbook.Sheets[workbook.SheetNames[0]], then the loop over its rows
processEdiFile(wb) == ForEachRow(<<>>, wb[1])

\* the user fills the spreadsheet
AddRow(sheet, row) ==
  /\ mpc = "editing"
  /\ Len(workbook[sheet]) < (IF sheet = 1 THEN MaxRows ELSE 1)
  /\ workbook' = [workbook EXCEPT ![sheet] = Append(@, row)]
  /\ UNCHANGED <<manifest, groups, mpc>>
  /\ UNCHANGED manifestFrame

\* POST /api/merger/process-manifest with the path of an EDI file
ProcessManifest ==
  /\ mpc = "editing"
  /\ manifest' = processEdiFile(workbook)
  /\ mpc' = "loaded"
  /\ UNCHANGED <<workbook, groups>>
  /\ UNCHANGED manifestFrame

\* --------------------------------------- manifest lookup and classifier
\* (pdf_merger.py; described in sections 3, 4.5 and 4.6 of the specification)

NotFound == <<"?">>

\* the normalisation of a reference at lookup time: the one of load time,
\* coerce to string and trim
NormalizeReference(chars) == Trim(chars)

Lookup(m, reference) ==
  IF NormalizeReference(reference) \in DOMAIN m THEN m[NormalizeReference(reference)]
  ELSE NotFound

IsReferenceChar(c) == c \in {"0", "1", "2", "3", "4", "5", "6", "7", "8", "9", "/", "-"}
IsDigit(c) == c \in {"0", "1", "2", "3", "4", "5", "6", "7", "8", "9"}

RECURSIVE ReferenceRun(_)
ReferenceRun(str) ==
  IF str # <<>> /\ IsReferenceChar(Head(str)) THEN <<Head(str)>> \o ReferenceRun(Tail(str))
  ELSE <<>>

\* the reference in the name of a customer document: the first run of digit
\* groups separated by '/' or '-'
RECURSIVE ExtractReference(_)
ExtractReference(fileName) ==
  IF fileName = <<>> THEN <<>>
  ELSE IF IsDigit(Head(fileName)) THEN ReferenceRun(fileName)
  ELSE ExtractReference(Tail(fileName))

Contains(text, part) ==
  \E i \in 1..(Len(text) - Len(part) + 1) : SubSeq(text, i, i + Len(part) - 1) = part

\* the references of the manifest that the text of an advice or bill page holds
PageReferences(m, text) == {k \in DOMAIN m : k # <<>> /\ Contains(text, k)}

\* the name of a client's group: the manifest name, else the raw reference
GroupName(m, reference) ==
  IF Lookup(m, reference) # NotFound THEN Lookup(m, reference) ELSE reference

CustomerFileNames ==
  {<<"i", "_", "1", "-", "2", ".", "p">>, <<"i", "_", "1", "2", ".", "p">>, <<"n", ".", "p">>}

PageTexts == {<<"r", " ", "1", "/", "2">>, <<"1", "-", "2", " ", "x">>, <<"z">>}

\* one merge of a customer document and a one-page advice document: one
\* group per distinct reference seen, with its name and its members
Merge(fileName, text) ==
  /\ mpc = "loaded"
  /\ LET custRef == NormalizeReference(ExtractReference(fileName))
         pageRefs == {NormalizeReference(r) : r \in PageReferences(manifest, text)}
         refs == (IF custRef = <<>> THEN {} ELSE {custRef}) \cup pageRefs
     IN groups' = [r \in refs |->
                    [name |-> GroupName(manifest, r),
                     customer |-> r = custRef,
                     advice |-> r \in pageRefs]]
  /\ mpc' = "merged"
  /\ UNCHANGED <<workbook, manifest>>
  /\ UNCHANGED manifestFrame

ManifestNext ==
  \/ \E sheet \in 1..2 :
       \E row \in (IF sheet = 1 THEN Rows ELSE OtherSheetRows) : AddRow(sheet, row)
  \/ ProcessManifest
  \/ \E fileName \in CustomerFileNames, text \in PageTexts : Merge(fileName, text)

ManifestSpec == Init /\ [][ManifestNext]_vars

\* ------------------------------------------------- extractShipmentData
\* The text of the first PDF is the sequence of its characters.

\* the i flag of both patterns: letters compare without case
Letters ==
  [upper |-> <<"A", "B", "C", "D", "E", "F", "G", "H", "I", "J", "K", "L", "M", "N", "O", "P", "Q",
              "R", "S", "T", "U", "V", "W", "X", "Y", "Z">>,
   lower |-> <<"a", "b", "c", "d", "e", "f", "g", "h", "i", "j", "k", "l", "m", "n", "o", "p", "q",
              "r", "s", "t", "u", "v", "w", "x", "y", "z">>]

Lower(c) ==
  IF \E k \in 1..26 : Letters.upper[k] = c
  THEN Letters.lower[CHOOSE k \in 1..26 : Letters.upper[k] = c]
  ELSE c

\* \d
DecimalDigit(c) == c \in {"0", "1", "2", "3", "4", "5", "6", "7", "8", "9"}

\* [A-Z0-9] under the i flag
Alnum(c) == DecimalDigit(c) \/ \E k \in 1..26 : c \in {Letters.upper[k], Letters.lower[k]}

\* the literal parts of the two patterns, in lower case
Words ==
  [container |-> <<"c", "o", "n", "t", "a", "i", "n", "e", "r">>,
   trailer |-> <<"t", "r", "a", "i", "l", "e", "r", ":">>,
   arriving |-> <<"a", "r", "r", "i", "v", "i", "n", "g", " ", "p", "e", "r">>,
   on |-> <<"o", "n">>]

\* the literal word stands at position i of the text
WordAt(text, i, word) ==
  /\ i + Len(word) - 1 <= Len(text)
  /\ \A k \in 1..Len(word) : Lower(text[i + k - 1]) = word[k]

\* a greedy X*: the first position from i on that holds no character of class In
Span(text, i, In(_)) ==
  CHOOSE j \in i..(Len(text) + 1) :
    /\ \A k \in i..(j - 1) : In(text[k])
    /\ j = Len(text) + 1 \/ ~In(text[j])

NoMatch == [found |-> FALSE, g1 |-> <<>>, g2 |-> <<>>]

\* /Container\s*\/?\s*Trailer:\s*([A-Z0-9]+)/i tried at position i
ContainerMatchAt(text, i) ==
  IF ~WordAt(text, i, Words.container) THEN NoMatch
  ELSE LET a == Span(text, i + Len(Words.container), IsSpace)
           b == IF a <= Len(text) /\ text[a] = "/" THEN a + 1 ELSE a
           c == Span(text, b, IsSpace)
       IN IF ~WordAt(text, c, Words.trailer) THEN NoMatch
          ELSE LET d == Span(text, c + Len(Words.trailer), IsSpace)
                   e == Span(text, d, Alnum)
               IN IF e = d THEN NoMatch
                  ELSE [found |-> TRUE, g1 |-> SubSeq(text, d, e - 1), g2 |-> <<>>]

\* \d{2}[./]\d{2}[./]\d{4} at position i
DateAt(text, i) ==
  /\ i + 9 <= Len(text)
  /\ \A k \in {0, 1, 3, 4, 6, 7, 8, 9} : DecimalDigit(text[i + k])
  /\ \A k \in {2, 5} : text[i + k] \in {".", "/"}

\* /Arriving per\s+([^(]+)\([^)]+\)\s+on\s+(\d{2}[./]\d{2}[./]\d{4})/i tried
\* at position i; \s+ gives one character back when the name would be empty
ArrivalMatchAt(text, i) ==
  IF ~WordAt(text, i, Words.arriving) THEN NoMatch
  ELSE LET a == i + Len(Words.arriving)
           b == Span(text, a, IsSpace)
           open == Span(text, b, LAMBDA ch : ch # "(")
           name == IF open > b THEN b ELSE b - 1
           close == Span(text, open + 1, LAMBDA ch : ch # ")")
           c == Span(text, close + 1, IsSpace)
           d == Span(text, c + Len(Words.on), IsSpace)
       IN IF /\ b > a
             /\ name > a
             /\ open <= Len(text)
             /\ close > open + 1
             /\ close <= Len(text)
             /\ c > close + 1
             /\ WordAt(text, c, Words.on)
             /\ d > c + Len(Words.on)
             /\ DateAt(text, d)
          THEN [found |-> TRUE, g1 |-> SubSeq(text, name, open - 1),
                g2 |-> SubSeq(text, d, d + 9)]
          ELSE NoMatch

\* String.prototype.match without the g flag: the leftmost match
ContainerMatch(text) ==
  IF \E i \in 1..Len(text) : ContainerMatchAt(text, i).found
  THEN ContainerMatchAt(text,
         CHOOSE i \in 1..Len(text) :
           /\ ContainerMatchAt(text, i).found
           /\ \A k \in 1..(i - 1) : ~ContainerMatchAt(text, k).found)
  ELSE NoMatch

ArrivalMatch(text) ==
  IF \E i \in 1..Len(text) : ArrivalMatchAt(text, i).found
  THEN ArrivalMatchAt(text,
         CHOOSE i \in 1..Len(text) :
           /\ ArrivalMatchAt(text, i).found
           /\ \A k \in 1..(i - 1) : ~ArrivalMatchAt(text, k).found)
  ELSE NoMatch

\* replace('/', '.') would replace the first slash only
ReplaceFirstSlash(str) ==
  IF \E k \in 1..Len(str) : str[k] = "/"
  THEN LET first == CHOOSE k \in 1..Len(str) :
                      str[k] = "/" /\ \A h \in 1..(k - 1) : str[h] # "/"
       IN [k \in 1..Len(str) |-> IF k = first THEN "." ELSE str[k]]
  ELSE str

\* replace(/\//g, '.')
ReplaceSlashes(str) == [k \in 1..Len(str) |-> IF str[k] = "/" THEN "." ELSE str[k]]

DefaultContainerNumber == <<"C", "A", "A", "U", "7", "6", "1", "1", "8", "4", "4">>
DefaultShipName == <<"B", "G", " ", "O", "r", "a", "n", "g", "e">>
DefaultArrivalDate == <<"1", "2", ".", "0", "6", ".", "2", "0", "2", "5">>

\* String(n).padStart(2, '0')
PadStart2(n) == IF n < 10 THEN <<"0">> \o Digits(n) ELSE Digits(n)

\* the body of extractShipmentData's try block from fullText on;
\* today is <<getDate(), getMonth() + 1, getFullYear()>>
ShipmentDataFromText(text, today) ==
  LET containerMatch == ContainerMatch(text)
      arrivalMatch == ArrivalMatch(text)
      shipName == IF arrivalMatch.found THEN Trim(arrivalMatch.g1) ELSE DefaultShipName
      arrivalDate ==
        IF arrivalMatch.found THEN ReplaceSlashes(arrivalMatch.g2) ELSE DefaultArrivalDate
  IN [containerNumber |->
        IF containerMatch.found THEN containerMatch.g1 ELSE DefaultContainerNumber,
      shipName |-> shipName,
      arrivalDate |-> arrivalDate,
      mvField |-> shipName \o <<" ">> \o arrivalDate,
      todaysDate |->
        PadStart2(today[1]) \o <<"/">> \o PadStart2(today[2]) \o <<"/">> \o Digits(today[3])]

\* what the text around 'Container/Trailer:' can look like, and for each
\* whether it holds the pattern and which number it names
ContainerTexts ==
  {[chars |-> <<>>,
    present |-> FALSE, number |-> <<>>],
   [chars |-> <<"C", "o", "n", "t", "a", "i", "n", "e", "r", "/", "T", "r", "a", "i", "l", "e", "r",
           ":", " ", "A", "B", "C", "D", "1", "2", "3", "4", "5", "6", "7">>,
    present |-> TRUE, number |-> <<"A", "B", "C", "D", "1", "2", "3", "4", "5", "6", "7">>],
   [chars |-> <<"C", "o", "n", "t", "a", "i", "n", "e", "r", " ", "T", "r", "a", "i", "l", "e", "r",
           ":", "A", "B", "1">>,
    present |-> TRUE, number |-> <<"A", "B", "1">>],
   [chars |-> <<"c", "o", "n", "t", "a", "i", "n", "e", "r", " ", "/", " ", "t", "r", "a", "i", "l",
           "e", "r", ":", "\n", "a", "b", "1", ".">>,
    present |-> TRUE, number |-> <<"a", "b", "1">>],
   [chars |-> <<"C", "o", "n", "t", "a", "i", "n", "e", "r", "/", "T", "r", "a", "i", "l", "e", "r",
           ":", " ", "-">>,
    present |-> FALSE, number |-> <<>>],
   [chars |-> <<"C", "o", "n", "t", "a", "i", "n", "e", "r", "/", "T", "r", "a", "i", "l", "e", "r",
           " ", "A", "B", "1">>,
    present |-> FALSE, number |-> <<>>]}

\* what the text around 'Arriving per' can look like, and for each whether
\* it holds the pattern and which ship and date it names
ArrivalTexts ==
  {[chars |-> <<>>,
    present |-> FALSE, ship |-> <<>>, date |-> <<>>],
   [chars |-> <<"A", "r", "r", "i", "v", "i", "n", "g", " ", "p", "e", "r", " ", "T", "e", "s", "t",
           " ", "S", "h", "i", "p", " ", "(", "I", "M", "O", "1", "2", "3", ")", " ", "o",
           "n", " ", "0", "1", "/", "0", "2", "/", "2", "0", "2", "5">>,
    present |-> TRUE, ship |-> <<"T", "e", "s", "t", " ", "S", "h", "i", "p">>, date |-> <<"0", "1", ".", "0", "2", ".", "2", "0", "2", "5">>],
   [chars |-> <<"A", "r", "r", "i", "v", "i", "n", "g", " ", "p", "e", "r", " ", " ", "M", "V", " ",
           "A", "(", "I", ")", "\n", "o", "n", " ", "0", "1", ".", "0", "2", ".", "2", "0",
           "2", "5">>,
    present |-> TRUE, ship |-> <<"M", "V", " ", "A">>, date |-> <<"0", "1", ".", "0", "2", ".", "2", "0", "2", "5">>],
   [chars |-> <<"a", "r", "r", "i", "v", "i", "n", "g", " ", "P", "E", "R", " ", "A", " ", "(", "I",
           ")", " ", "O", "N", " ", " ", "0", "1", ".", "0", "2", "/", "2", "0", "2", "5",
           "1">>,
    present |-> TRUE, ship |-> <<"A">>, date |-> <<"0", "1", ".", "0", "2", ".", "2", "0", "2", "5">>],
   [chars |-> <<"A", "r", "r", "i", "v", "i", "n", "g", " ", "p", "e", "r", " ", " ", "(", "I", ")",
           " ", "o", "n", " ", "0", "1", "/", "0", "2", "/", "2", "0", "2", "5">>,
    present |-> TRUE, ship |-> <<>>, date |-> <<"0", "1", ".", "0", "2", ".", "2", "0", "2", "5">>],
   [chars |-> <<"A", "r", "r", "i", "v", "i", "n", "g", " ", "p", "e", "r", " ", "(", "I", ")", " ",
           "o", "n", " ", "0", "1", "/", "0", "2", "/", "2", "0", "2", "5">>,
    present |-> FALSE, ship |-> <<>>, date |-> <<>>],
   [chars |-> <<"A", "r", "r", "i", "v", "i", "n", "g", " ", "p", "e", "r", " ", "A", " ", "(", "I",
           ")", " ", "o", "n", " ", "1", "/", "2", "/", "2", "0", "2", "5">>,
    present |-> FALSE, ship |-> <<>>, date |-> <<>>],
   [chars |-> <<"A", "r", "r", "i", "v", "i", "n", "g", " ", "p", "e", "r", " ", "A", " ", "o", "n",
           " ", "0", "1", "/", "0", "2", "/", "2", "0", "2", "5">>,
    present |-> FALSE, ship |-> <<>>, date |-> <<>>],
   [chars |-> <<"A", "r", "r", "i", "v", "i", "n", "g", " ", "p", "e", "r", " ", "A", " ", "(", ")",
           " ", "o", "n", " ", "0", "1", "/", "0", "2", "/", "2", "0", "2", "5">>,
    present |-> FALSE, ship |-> <<>>, date |-> <<>>],
   [chars |-> <<"A", "r", "r", "i", "v", "i", "n", "g", " ", "p", "e", "r", " ", "A", " ", "(", "I",
           ")", " ", "o", "n", " ", "0", "1", "-", "0", "2", "-", "2", "0", "2", "5">>,
    present |-> FALSE, ship |-> <<>>, date |-> <<>>]}

Today == {<<1, 2, 2025>>, <<12, 11, 2026>>}

Separators == {<<" ">>, <<"\n">>}

\* extractShipmentData on a PDF whose text is built from the two passages
ExtractFromText(container, arrival, sep, containerFirst, today) ==
  /\ LET text == IF containerFirst THEN container.chars \o sep \o arrival.chars
                 ELSE arrival.chars \o sep \o container.chars
     IN /\ fullText' = [text |-> text, container |-> container.number,
                        containerPresent |-> container.present, ship |-> arrival.ship,
                        date |-> arrival.date, arrivalPresent |-> arrival.present]
        /\ extracted' = [called |-> TRUE, data |-> ShipmentDataFromText(text, today)]
  /\ UNCHANGED textFrame

TextNext ==
  \E container \in ContainerTexts, arrival \in ArrivalTexts, sep \in Separators,
     containerFirst \in BOOLEAN, today \in Today :
    ExtractFromText(container, arrival, sep, containerFirst, today)

TextSpec == Init /\ [][TextNext]_vars

\* -------------------------------------------------------- daily cleanup
\* the names an entry of a cleaned directory can have, in readdir order
EntryNames == 1..2

\* a file or a folder is written, or written again, in a cleaned directory
WriteEntry(dir, name) ==
  /\ \/ \E e \in entries[dir] : e.name = name
     \/ Cardinality(UNION {{<<d, e>> : e \in entries[d]} : d \in cleanupDirs}) < MaxEntries
  /\ entries' = [entries EXCEPT ![dir] =
                   {e \in @ : e.name # name} \cup {[name |-> name, mtime |-> clock]}]
  /\ lastCleanup' = NoCleanup
  /\ UNCHANGED clock
  /\ UNCHANGED cleanupFrame

DayPasses ==
  /\ clock < MaxDays
  /\ clock' = clock + 1
  /\ lastCleanup' = NoCleanup
  /\ UNCHANGED entries
  /\ UNCHANGED cleanupFrame

\* variant: an entry is removed from its seventh day on
ExpiredOnDaySeven(now, mtime) == now - mtime >= maxAge

\* Date.now() - stats.mtime.getTime() > maxAge
Expired(now, mtime) == now - mtime > maxAge

\* the loop over one directory: when the directory is broken, stat or
\* remove throws at the entry named stop, which ends the loop
CleanDirectory(files, broken, stop) ==
  {e \in files : \/ ~Expired(clock, e.mtime)
                 \/ broken /\ stop <= e.name /\ \E f \in files : f.name = stop}

\* one run of the scheduled task
Cleanup(broken, stop) ==
  /\ entries' = [dir \in cleanupDirs |->
                   CleanDirectory(entries[dir], dir \in broken, stop)]
  /\ lastCleanup' =
       [ran |-> TRUE,
        removed |-> UNION {{[dir |-> dir, entry |-> e] : e \in entries[dir] \ entries'[dir]} :
                             dir \in cleanupDirs},
        failed |-> {dir \in cleanupDirs :
                      dir \in broken /\ \E e \in entries[dir] : e.name = stop}]
  /\ UNCHANGED clock
  /\ UNCHANGED cleanupFrame

CleanupNext ==
  \/ \E dir \in cleanupDirs, name \in EntryNames : WriteEntry(dir, name)
  \/ DayPasses
  \/ \E broken \in SUBSET cleanupDirs, stop \in EntryNames : Cleanup(broken, stop)

CleanupSpec == Init /\ [][CleanupNext]_vars

\* ------------------------------------------------------ download routes
\* GET /api/download/:jobId and GET /api/merger/download/:jobId for one job
\* whose output directory exists. zipPath is made from the job id alone, so
\* the requests of a route share one file; each writes the archive block by
\* block through its own stream. A block is "data" or a "hole".

\* fs.createWriteStream(zipPath): the file is created or cut to length 0
DownloadStart(route) ==
  /\ Len(downloads) < MaxDownloads
  /\ zip' = [zip EXCEPT ![route] = [exists |-> TRUE, blocks |-> <<>>]]
  /\ downloads' = Append(downloads, [route |-> route, pc |-> "writing", offset |-> 0,
                                     delivered |-> NoZip])
  /\ UNCHANGED downloadFrame

\* the stream's next write, at the stream's own position; a stream whose
\* file was removed writes to a file no path names
WriteBlock(d) ==
  /\ d \in DOMAIN downloads
  /\ downloads[d].pc = "writing"
  /\ LET at == downloads[d].offset + 1
         file == zip[downloads[d].route]
     IN /\ zip' = IF ~file.exists THEN zip
                  ELSE [zip EXCEPT ![downloads[d].route].blocks =
                          [k \in 1..(IF Len(file.blocks) > at THEN Len(file.blocks) ELSE at) |->
                             IF k = at THEN "data"
                             ELSE IF k <= Len(file.blocks) THEN file.blocks[k]
                             ELSE "hole"]]
        /\ downloads' = [downloads EXCEPT ![d].offset = at,
                                          ![d].pc = IF at = ArchiveBlocks THEN "closed"
                                                    ELSE "writing"]
  /\ UNCHANGED downloadFrame

\* res.download(zipPath, ...): what is at zipPath is sent
Send(d) ==
  /\ d \in DOMAIN downloads
  /\ downloads[d].pc = "closed"
  /\ downloads' = [downloads EXCEPT ![d].delivered = zip[downloads[d].route],
                                    ![d].pc = "sent"]
  /\ UNCHANGED zip
  /\ UNCHANGED downloadFrame

\* the callback of res.download: fs.remove(zipPath)
RemoveZip(d) ==
  /\ d \in DOMAIN downloads
  /\ downloads[d].pc = "sent"
  /\ zip' = [zip EXCEPT ![downloads[d].route] = NoZip]
  /\ downloads' = [downloads EXCEPT ![d].pc = "done"]
  /\ UNCHANGED downloadFrame

DownloadNext ==
  \/ \E route \in DOMAIN zip : DownloadStart(route)
  \/ \E d \in 1..MaxDownloads : WriteBlock(d)
  \/ \E d \in 1..MaxDownloads : Send(d)
  \/ \E d \in 1..MaxDownloads : RemoveZip(d)

DownloadSpec == Init /\ [][DownloadNext]_vars

\* ------------------------------------------------ merger page (index.html)
\* A file is an Excel file, a PDF with 'advice' in its name or another PDF.

\* handleMergerFileUpload's smart detection
TargetType(uploadType, file) ==
  IF uploadType = "documents" /\ file = "excel" THEN "edi"
  ELSE IF uploadType = "documents" /\ file = "advice" THEN "advice"
  ELSE uploadType

\* updateMergerProcessButton: the new value of processBtn.disabled
updateMergerProcessButton(files) ==
  ~(files["edi"] > 0 /\ (files["advice"] > 0 \/ files["documents"] > 0))

\* a file is dropped on, or chosen for, one of the three upload areas
handleMergerFileUpload(uploadType, file) ==
  /\ LET targetType == TargetType(uploadType, file)
     IN /\ targetType = "documents" => mergerFiles[targetType] < MaxSelected
        /\ mergerFiles' = [mergerFiles EXCEPT ![targetType] =
                             IF targetType \in {"edi", "advice"} /\ @ > 0 THEN 1 ELSE @ + 1]
  /\ disabled' = updateMergerProcessButton(mergerFiles')
  /\ UNCHANGED inFlight
  /\ UNCHANGED pageFrame

\* the Remove button of a listed file
removeMergerFile(type) ==
  /\ mergerFiles[type] > 0
  /\ mergerFiles' = [mergerFiles EXCEPT ![type] = @ - 1]
  /\ disabled' = updateMergerProcessButton(mergerFiles')
  /\ UNCHANGED inFlight
  /\ UNCHANGED pageFrame

\* a click on the button: startMergerProcessing up to its first await
startMergerProcessing ==
  /\ ~disabled
  /\ inFlight < MaxClicks
  /\ disabled' = TRUE
  /\ inFlight' = inFlight + 1
  /\ UNCHANGED mergerFiles
  /\ UNCHANGED pageFrame

\* the three requests are over, or one has failed: the finally block
MergerProcessingEnds ==
  /\ inFlight > 0
  /\ disabled' = FALSE
  /\ inFlight' = inFlight - 1
  /\ UNCHANGED mergerFiles
  /\ UNCHANGED pageFrame

PageNext ==
  \/ \E uploadType \in DOMAIN mergerFiles, file \in {"excel", "advice", "pdf"} :
       handleMergerFileUpload(uploadType, file)
  \/ \E type \in DOMAIN mergerFiles : removeMergerFile(type)
  \/ startMergerProcessing
  \/ MergerProcessingEnds

PageSpec == Init /\ [][PageNext]_vars

TypeOK ==
  /\ pc \in {"idle", "batch", "compress", "returned"}
  /\ caller \in {"batch", "api"}
  /\ methodIdx \in 1..Len(Methods)
  /\ batchNo \in 0..MaxBatches

\* ------------------------------------------------------------ claims

\* the last attempt ran to its end and left a file within the budget
LastMetBudget ==
  /\ compress.attempts # <<>>
  /\ compress.last.status = "ok"
  /\ compress.last.out \in 1..TargetSizeTenths

\* the bytes advancedCompress was given
CompressInput ==
  [src |-> IF caller = "batch" THEN "overlay" ELSE "input", size |-> compress.inputSize]

OverBudgetCall == compress.called /\ compress.inputSize > TargetSizeTenths

\* C1: for an input over the target, the strategies run in the fixed order
\* ghostscript-screen, ghostscript-ebook, imagemagick-low, imagemagick-med,
\* qpdf; the first one that completes with an output within the target ends
\* the call (no later strategy runs) with success: true, method = its name
\* and finalSizeMB = the size of its output, which is the file at the output
\* path.
C1_FirstFitInOrder ==
  /\ [](OverBudgetCall =>
          /\ Len(compress.attempts) <= 5
          /\ compress.attempts =
               SubSeq(<<"ghostscript-screen", "ghostscript-ebook", "imagemagick-low",
                        "imagemagick-med", "qpdf">>, 1, Len(compress.attempts))
          /\ LastMetBudget =>
               /\ compress.returned
               /\ compress.success
               /\ compress.method = compress.attempts[Len(compress.attempts)]
               /\ compress.finalSizeMB = compress.last.out
               /\ outFile = [src |-> compress.method, size |-> compress.last.out]
          /\ (compress.returned /\ compress.success) => LastMetBudget)
  /\ [][(OverBudgetCall /\ compress.returned) =>
          (compress'.attempts = compress.attempts \/ compress'.attempts = <<>>)]_vars

C1_Witness ==
  /\ OverBudgetCall
  /\ compress.returned
  /\ compress.success
  /\ compress.method = "imagemagick-low"
  /\ Len(compress.attempts) = 3

\* C2: for an input over the target, when every strategy failed the call
\* returns success: false with method "fallback" and the original bytes are
\* at the output path; processSinglePDFWithOverlay still reports the file as
\* processed successfully, with the original size.
C2_FallbackKeepsOriginal ==
  (OverBudgetCall /\ compress.returned /\ ~LastMetBudget) =>
    /\ ~compress.success
    /\ compress.method = "fallback"
    /\ Len(compress.attempts) = 5
    /\ compress.finalSizeMB = compress.inputSize
    /\ outFile = CompressInput
    /\ caller = "batch" =>
         /\ single.done
         /\ single.success
         /\ single.finalSizeMB = compress.inputSize
         /\ successFiles # <<>>
         /\ successFiles[Len(successFiles)].input = single.input
         /\ pc = "batch"

C2_Witness ==
  /\ OverBudgetCall
  /\ compress.returned
  /\ compress.method = "fallback"
  /\ compress.last.status = "ok"
  /\ compress.last.out > compress.inputSize
  /\ caller = "batch"
  /\ single.success

\* C3: an overlay-rendered PDF of at most 1.1 MB (boundary included) is
\* written as it is and no strategy is attempted; advancedCompress called on
\* an input of at most the target copies it unchanged and returns method
\* "none".
C3_UnderBudgetUntouched ==
  /\ (single.done /\ single.pages >= TargetPageNumber
        /\ single.filledSize <= TargetSizeTenths) =>
       /\ single.success
       /\ ~compress.called
       /\ outFile = [src |-> "overlay", size |-> single.filledSize]
       /\ single.finalSizeMB = single.filledSize
  /\ (compress.called /\ compress.inputSize <= TargetSizeTenths) =>
       /\ compress.returned
       /\ compress.success
       /\ compress.method = "none"
       /\ compress.attempts = <<>>
       /\ compress.finalSizeMB = compress.inputSize
       /\ outFile = [src |-> "input", size |-> compress.inputSize]

C3_Witness ==
  /\ single.done
  /\ single.success
  /\ single.filledSize = TargetSizeTenths
  /\ outFile.size = TargetSizeTenths

\* C4: for an input over the target, whatever the strategies did, the file at
\* the output path when advancedCompress returns is not larger than the
\* input: it is the output of the strategy that met the budget or the
\* original bytes.
C4_OutputNeverLarger ==
  (OverBudgetCall /\ compress.returned) =>
    /\ outFile.src # "none"
    /\ outFile.size <= compress.inputSize
    /\ \/ outFile = CompressInput
       \/ /\ outFile.src = compress.method
          /\ outFile.size <= TargetSizeTenths

C4_Witness ==
  /\ OverBudgetCall
  /\ compress.returned
  /\ compress.last.out > compress.inputSize
  /\ caller = "api"
  /\ outFile.size = compress.inputSize

\* C5: an attempt that timed out or whose tool is absent is a failed attempt,
\* also when it left a partial file within the budget: the next strategy in
\* order is tried, or after the last one the fallback is returned, and in a
\* batch the file is still reported as processed and the loop goes on.
C5_TimeoutOrAbsentIsFailure ==
  (OverBudgetCall /\ compress.attempts # <<>>
     /\ compress.last.status \in {"timeout", "absent"}) =>
    IF Len(compress.attempts) < 5
    THEN /\ ~compress.returned
         /\ pc = "compress"
         /\ methodIdx = Len(compress.attempts) + 1
    ELSE /\ compress.returned
         /\ compress.method = "fallback"
         /\ caller = "batch" => (single.done /\ single.success /\ pc = "batch")

C5_Witness ==
  /\ OverBudgetCall
  /\ compress.last = [status |-> "timeout", out |-> TargetSizeTenths - 1]
  /\ pc = "compress"
  /\ methodIdx = 3
  /\ caller = "batch"

\* C6: in processBatch a failing file is recorded in failedFiles, the
\* remaining files are still processed in sorted order, and the result
\* returned after the loop has success: true however many files failed.
C6_PartialFailureSemantics ==
  /\ Len(processedLog) <= Len(pdfFiles)
  /\ processedLog = SubSeq(pdfFiles, 1, Len(processedLog))
  /\ \A i, j \in DOMAIN pdfFiles : i < j => SortKey(pdfFiles[i]) < SortKey(pdfFiles[j])
  /\ (single.done /\ ~single.success) =>
       /\ failedFiles # <<>>
       /\ failedFiles[Len(failedFiles)] = [input |-> single.input, error |-> single.error]
       /\ pc = "batch"
  /\ (pc = "returned" /\ processedLog # <<>>) =>
       /\ result.success
       /\ processedLog = pdfFiles

C6_Witness ==
  /\ pc = "returned"
  /\ batchNo = 1
  /\ Len(pdfFiles) = 2
  /\ processedLog = pdfFiles
  /\ Len(failedFiles) = 2
  /\ result.success

\* C7 (as stated): every invocation extracts the shipment data once, from
\* the first discovered PDF, and an invocation whose extraction failed
\* processes no file and returns a failure, also on a processor that
\* extracted successfully in an earlier invocation.
C7_ExtractionFailureAborts ==
  (batchNo > 0 /\ pdfFiles # <<>>) =>
    /\ extractedFrom = <<pdfFiles[1]>>
    /\ shipmentData.batch # batchNo =>
         /\ processedLog = <<>>
         /\ pc = "returned"
         /\ ~result.success

\* C8: a document with fewer pages than the 1-based target page fails with
\* the page-count error, nothing is written for it, the failure is recorded
\* for that file only and the loop goes on with the next file.
C8_PageCountErrorIsPerFile ==
  /\ [](single.done /\ single.pages # 0 /\ single.pages < TargetPageNumber =>
          /\ ~single.success
          /\ single.error = "pages"
          /\ failedFiles # <<>>
          /\ failedFiles[Len(failedFiles)] = [input |-> single.input, error |-> "pages"]
          /\ outFile = NoFile
          /\ tempFile = NoFile
          /\ pc = "batch"
          /\ idx = Len(processedLog) + 1)
  /\ [][(idx' = idx + 1 /\ single'.error = "pages") =>
          /\ successFiles' = successFiles
          /\ Len(failedFiles') = Len(failedFiles) + 1
          /\ SubSeq(failedFiles', 1, Len(failedFiles)) = failedFiles
          /\ shipmentData' = shipmentData
          /\ pdfFiles' = pdfFiles]_vars

C8_Witness ==
  /\ batchNo = 1
  /\ Len(pdfFiles) = 2
  /\ single.done
  /\ single.success
  /\ single.input = pdfFiles[2]
  /\ failedFiles = <<[input |-> pdfFiles[1], error |-> "pages"]>>

\* the configured text fields that were drawn: a recognized name and a text
\* the font can encode
DrawnTextFields ==
  {i \in DOMAIN fields :
     /\ fields[i] \in {"mvField", "containerNumber", "importerDate", "carrierDate"}
     /\ fields[i] = "mvField" => shipmentData.mvEncodable}

RecognizedTextFields ==
  {i \in DOMAIN fields :
     fields[i] \in {"mvField", "containerNumber", "importerDate", "carrierDate"}}

ValidSignature ==
  signature.exists /\ signature.ext \in {"png", "jpg", "jpeg"} /\ signature.bytesOk

C10_CountIsRecognizedFields ==
  (single.done /\ single.pages >= TargetPageNumber) =>
    /\ single.success
    /\ single.overlaysAdded =
         Cardinality(RecognizedTextFields) + (IF ValidSignature THEN 1 ELSE 0)

\* C10 (amended): for a document with at least targetPageNumber pages the
\* overlay count is the number of configured text fields with a recognized
\* name whose text was drawn without error, plus 1 if a valid signature image
\* was present.
C10_CountIsDrawnFields ==
  (single.done /\ single.pages >= TargetPageNumber) =>
    /\ single.success
    /\ single.overlaysAdded =
         Cardinality(DrawnTextFields) + (IF ValidSignature THEN 1 ELSE 0)

C10_Witness ==
  /\ single.done
  /\ single.success
  /\ fields = DefaultFields
  /\ ValidSignature
  /\ ~shipmentData.mvEncodable
  /\ single.overlaysAdded = 4

\* the attribute whose string was drawn for the i-th configured field, if any
DrawnFor(i) ==
  {d.text : d \in {single.drawn[k] : k \in {k \in DOMAIN single.drawn :
                                               single.drawn[k].name = fields[i]}}}

\* C11 (as stated): a field named mvField, containerNumber or todaysDate is
\* drawn with the ShipmentData string of that name; a field with any other
\* name draws nothing and does not fail the file. (Stated for shipment data
\* whose strings the font can encode.)
C11_KnownNamesAreDataNames ==
  (single.done /\ single.pages >= TargetPageNumber /\ shipmentData.mvEncodable) =>
    /\ single.success
    /\ \A i \in DOMAIN fields :
         IF fields[i] \in {"mvField", "containerNumber", "todaysDate"}
         THEN DrawnFor(i) = {fields[i]}
         ELSE DrawnFor(i) = {}

\* C11 (amended): a field named mvField or containerNumber is drawn with the
\* ShipmentData string of that name, and a field named importerDate or
\* carrierDate with the todaysDate string, whenever the font can encode the
\* string; a field with any other name (todaysDate included) draws nothing,
\* and in no case does the file fail.
C11_KnownNamesAreFieldNames ==
  (single.done /\ single.pages >= TargetPageNumber) =>
    /\ single.success
    /\ \A i \in DOMAIN fields :
         CASE fields[i] = "mvField" ->
                DrawnFor(i) = IF shipmentData.mvEncodable THEN {"mvField"} ELSE {}
           [] fields[i] = "containerNumber" -> DrawnFor(i) = {"containerNumber"}
           [] fields[i] \in {"importerDate", "carrierDate"} -> DrawnFor(i) = {"todaysDate"}
           [] OTHER -> DrawnFor(i) = {}

C11_Witness ==
  /\ single.done
  /\ single.success
  /\ fields = <<"customOverlay", "todaysDate", "mvField">>
  /\ single.drawn = <<[name |-> "mvField", text |-> "mvField"]>>
  /\ single.overlaysAdded = 1

\* C12: no file that processBatch wrote (an output <basename>_complete.<ext>
\* or its .temp.pdf) is selected by file discovery, in any later run over the
\* folder that holds them.
C12_OutputsNeverDiscovered ==
  /\ findPDFFiles(written) = <<>>
  /\ \A i \in DOMAIN pdfFiles : pdfFiles[i] \notin written

C12_Witness ==
  /\ batchNo = 2
  /\ pc = "batch"
  /\ pdfFiles # <<>>
  /\ generateOutputFileName(pdfFiles[1]) \in written
  /\ TempPath(generateOutputFileName(pdfFiles[1])) \in written

\* C13: the result of a processBatch invocation that ran its loop describes
\* exactly that invocation: processed = successful + failed = the number of
\* PDFs it discovered, and its successFiles and failedFiles (the arrays the
\* result refers to) hold one entry per discovered file.
C13_ResultDescribesInvocation ==
  (pc = "returned" /\ result.message = "none") =>
    /\ result.processed = Len(pdfFiles)
    /\ result.successful + result.failed = result.processed
    /\ Len(successFiles) + Len(failedFiles) = Len(pdfFiles)

\* C14: every output file written for a PDF that processBatch reports as
\* successfully processed has a size of at most 1.1 MB.
C14_SuccessfulOutputsWithinBudget ==
  /\ \A i \in DOMAIN successFiles : successFiles[i].sizeMB <= TargetSizeTenths
  /\ (single.done /\ single.success) => outFile.size <= TargetSizeTenths

\* C15: when no strategy met the budget the output is still produced and
\* holds the overlay-rendered bytes, the file is reported as a success, and
\* the per-file result is flagged: of the results of files that went through
\* compression, `compressed` is set exactly on those whose output met the
\* budget.
C15_OversizedOutputIsFlagged ==
  (single.done /\ compress.returned /\ caller = "batch") =>
    /\ ~compress.success =>
         /\ single.success
         /\ outFile = [src |-> "overlay", size |-> single.filledSize]
         /\ single.finalSizeMB = single.filledSize
    /\ single.compressed <=> single.finalSizeMB <= TargetSizeTenths

\* C16: every form-processing job and every merger job reads its inputs from
\* and writes its outputs to directories keyed by its own job id, so that no
\* two jobs work in the same directory and no job is given a file uploaded
\* by the user of another job.
C16_JobsUseOwnDirectories ==
  \A j \in DOMAIN jobs :
    /\ jobs[j].inputDir.job = j
    /\ jobs[j].outputDir.job = j
    /\ \A k \in DOMAIN jobs \ {j} :
         {jobs[j].inputDir, jobs[j].outputDir} \cap {jobs[k].inputDir, jobs[k].outputDir} = {}
    /\ \A f \in jobs[j].inputs : f.user = jobs[j].user

\* the reference and the name of a row as the claims read them: the
\* 'Consignees ...' column, else the fallback column
RowReference(row) == IF row.cref # Absent THEN row.cref ELSE row.ref
RowName(row) == IF row.cname # Absent THEN row.cname ELSE row.name

\* a cell that is there and is not blank
Present(c) == c # Absent /\ Trim(toString(c)) # <<>>

\* the rows of the first sheet that have both a reference and a name
CompleteRows ==
  {i \in DOMAIN workbook[1] :
     Present(RowReference(workbook[1][i])) /\ Present(RowName(workbook[1][i]))}

RefOfRow(i) == toString(RowReference(workbook[1][i]))
NameOfRow(i) == Trim(toString(RowName(workbook[1][i])))

\* the same reference written with the other separator
OtherSeparator(str) ==
  [i \in DOMAIN str |-> IF str[i] = "/" THEN "-" ELSE IF str[i] = "-" THEN "/" ELSE str[i]]

\* the reference written with '/' only
SlashForm(str) == [i \in DOMAIN str |-> IF str[i] = "-" THEN "/" ELSE str[i]]

\* C17: after loading a manifest whose rows name different clients, looking
\* up the reference of every row that has a reference and a name returns the
\* trimmed name of that row, and so does looking it up written with the other
\* separator ('-' for '/', '/' for '-').
C17_LookupRoundTrip ==
  (/\ mpc = "loaded"
   /\ \A i, j \in CompleteRows :
        SlashForm(Trim(RefOfRow(i))) = SlashForm(Trim(RefOfRow(j))) => i = j) =>
    \A i \in CompleteRows :
      /\ Lookup(manifest, RefOfRow(i)) = NameOfRow(i)
      /\ Lookup(manifest, OtherSeparator(RefOfRow(i))) = NameOfRow(i)

\* C18: the manifest holds exactly one entry for every reference of a row of
\* the first sheet that has both a reference and a name, keyed by the trimmed
\* reference string with the trimmed name of such a row as value; rows that
\* miss either and rows of other sheets add nothing; no key and no name is
\* empty.
C18_EntriesAreCompleteRows ==
  mpc = "loaded" =>
    /\ DOMAIN manifest = {Trim(RefOfRow(i)) : i \in CompleteRows}
    /\ \A k \in DOMAIN manifest :
         \E i \in CompleteRows : k = Trim(RefOfRow(i)) /\ manifest[k] = NameOfRow(i)
    /\ <<>> \notin DOMAIN manifest
    /\ \A k \in DOMAIN manifest : manifest[k] # <<>>

\* C19: when the name of the customer document holds, written with '-', a
\* reference that the manifest holds written with '/' and that the advice
\* page matched, the customer document and the page are in one group and
\* that group has the manifest's name for the reference.
C19_SeparatorsClassifyTogether ==
  mpc = "merged" =>
    \A r \in DOMAIN groups :
      (/\ groups[r].customer
       /\ SlashForm(r) # r
       /\ SlashForm(r) \in DOMAIN manifest
       /\ SlashForm(r) \in DOMAIN groups
       /\ groups[SlashForm(r)].advice) =>
        /\ groups[r].advice
        /\ groups[r].name = manifest[SlashForm(r)]

\* C20: for every overlay configured in the Form Processor page and sent with
\* POST /api/process, the text of the overlay is written on every processed
\* PDF (a PDF that has the target page).
C20_ConfiguredTextIsWritten ==
  (single.done /\ single.pages >= TargetPageNumber
     /\ fields = FieldsFromOverlays(RequestOverlays)) =>
    /\ single.success
    /\ \A i \in DOMAIN RequestOverlays :
         RequestOverlays[i].name = "" =>
           \E k \in DOMAIN single.drawn :
             /\ single.drawn[k].name = fields[i]
             /\ single.drawn[k].text = "text"

\* C21: extraction from text never fails: a text without the container
\* pattern gives the default container number, a text without the arrival
\* pattern gives the default ship name and arrival date, a text with a pattern
\* gives the captured values, the arrival date is written with '.' only, and
\* mvField is the ship name, a space and the arrival date.
C21_ExtractionFromText ==
  extracted.called =>
    LET data == extracted.data
    IN /\ data.containerNumber =
            (IF fullText.containerPresent THEN fullText.container
             ELSE DefaultContainerNumber)
       /\ data.shipName = (IF fullText.arrivalPresent THEN fullText.ship ELSE DefaultShipName)
       /\ data.arrivalDate =
            (IF fullText.arrivalPresent THEN fullText.date ELSE DefaultArrivalDate)
       /\ \A k \in 1..Len(data.arrivalDate) : data.arrivalDate[k] # "/"
       /\ data.mvField = data.shipName \o <<" ">> \o data.arrivalDate

\* the scenario of the specification: both patterns present, slashes in the date
C21_Witness ==
  /\ extracted.called
  /\ Contains(fullText.text, <<"o", "n", " ", "0", "1", "/", "0", "2", "/", "2", "0", "2", "5">>)
  /\ extracted.data.containerNumber =
       <<"A", "B", "C", "D", "1", "2", "3", "4", "5", "6", "7">>
  /\ extracted.data.mvField =
       <<"T", "e", "s", "t", " ", "S", "h", "i", "p", " ", "0", "1", ".", "0", "2", ".",
         "2", "0", "2", "5">>

\* C22: the availability of each external compression tool is probed at
\* most once in the lifetime of the server process, whatever the number of
\* requests and batches.
C22_ToolsProbedAtMostOnce == \A tool \in DOMAIN probes : probes[tool] <= 1

Ended(states) == {j \in DOMAIN jobs : jobs[j].state \in states}

C25_MonitorInvariants ==
  /\ [](LET m == performanceMonitor.metrics
        IN /\ m.totalRequests = m.successfulRequests + m.failedRequests
           /\ m.mergerJobs + m.formProcessorJobs <= m.successfulRequests
           /\ Len(m.errors) <= 50
           /\ Len(m.errors) = IF m.failedRequests < 50 THEN m.failedRequests ELSE 50
           /\ \A k \in 1..Len(m.errors) :
                m.errors[k].failure = m.failedRequests - Len(m.errors) + k)
  /\ [][\A jobId \in JobIds :
          /\ jobId \notin DOMAIN performanceMonitor.activeJobs
          /\ CompleteJob(jobId) \/ FailJob(jobId)
          => /\ performanceMonitor'.returned = "null"
             /\ performanceMonitor'.metrics = performanceMonitor.metrics]_vars

\* the 51st failure has pushed the first one out of the list, after a call
\* for a job that was not active
C25_Witness ==
  /\ performanceMonitor.metrics.failedRequests = 51
  /\ Len(performanceMonitor.metrics.errors) = 50
  /\ performanceMonitor.metrics.mergerJobs = 1
  /\ performanceMonitor.returned = "null"

\* C26: overlapping download requests for one job do not interfere: what
\* each request has sent is the complete archive of the job's output files.
C26_DownloadsDeliverCompleteArchives ==
  \A d \in DOMAIN downloads :
    downloads[d].pc \in {"sent", "done"} =>
      downloads[d].delivered = [exists |-> TRUE, blocks |-> [k \in 1..ArchiveBlocks |-> "data"]]

\* C27: whenever processSinglePDFWithOverlay has returned, with success or
\* with failure, no '<outputPath>.temp.pdf' file is left behind.
C27_NoTempFileRemains == single.done => tempFile = NoFile

\* C28: whatever the order of file events, clicks and ends of merge
\* requests, the merge button is enabled only if an EDI file and at least
\* one advice or customer document are selected and no merge request is in
\* flight, so that no second request starts while one is running.
C28_ButtonEnabledOnlyWhenReady ==
  /\ ~disabled =>
       /\ mergerFiles["edi"] > 0
       /\ mergerFiles["advice"] > 0 \/ mergerFiles["documents"] > 0
       /\ inFlight = 0
  /\ inFlight <= 1

\* C29: whenever the server reports the signature as available, a following
\* POST /api/process draws the signature on every PDF it processes
\* successfully
C29_ReportedSignatureIsDrawn ==
  \A j \in DOMAIN jobs :
    jobs[j].kind = "form" /\ jobs[j].state = "done" /\ jobs[j].reported => jobs[j].signed

\* C30: the health status is 'degraded' only if a job failed within the last
\* minute or fewer than 95% of the finished jobs succeeded; a server that has
\* finished no job and recorded no error is 'healthy'
C30_DegradedOnlyOnFailures ==
  health.asked /\ health.status = "degraded" =>
    \/ health.recentErrors > 0
    \/ /\ health.totalRequests > 0
       /\ health.successfulRequests * 100 < 95 * health.totalRequests

====
